---- MODULE Spec2Model ----
(***************************************************************************)
(* lazylinear: the terminal UI state (internal/ui/ui.go), the issue fetch  *)
(* with its status sort (internal/api/client.go) and the program's main    *)
(* loop (main).  Strings are sequences of one-character strings, so that   *)
(* lowercasing, trimming and substring search are computed.                *)
(***************************************************************************)
EXTENDS Integers, Sequences, FiniteSets, TLC

\* ------------------------------------------------------------------ bounds
\* terminal height reported by g.Size() in layout
TermMaxY == 9
\* largest scroll origin of the issues view that the model follows
MaxOrigin == 2
\* longest response of a GetIssues call followed on its own
MaxNodes == 4
\* most key events waiting in the gui's event channel
MaxKeys == 2
\* most refresh keys followed through the main loop
MaxTriggers == 2
\* longest assignee name, in characters, whose initials are followed
MaxName == 3

\* --------------------------------------------------------------- strings
Upper == <<"A","B","C","D","E","F","G","H","I","J","K","L","M",
           "N","O","P","Q","R","S","T","U","V","W","X","Y","Z">>
Lower == <<"a","b","c","d","e","f","g","h","i","j","k","l","m",
           "n","o","p","q","r","s","t","u","v","w","x","y","z">>

\* strings.ToLower, one character
ToLowerChar(c) ==
    IF \E i \in 1..Len(Upper) : Upper[i] = c
    THEN Lower[CHOOSE i \in 1..Len(Upper) : Upper[i] = c]
    ELSE c

\* strings.ToLower
ToLower(s) == [i \in 1..Len(s) |-> ToLowerChar(s[i])]

\* strings.Contains(s, sub)
Contains(s, sub) ==
    \E i \in 0..(Len(s) - Len(sub)) : SubSeq(s, i + 1, i + Len(sub)) = sub

IsSpace(c) == c \in {" ", "\n", "\t", "\r"}

\* strings.TrimSpace
RECURSIVE TrimLeft(_)
TrimLeft(s) == IF s # <<>> /\ IsSpace(Head(s)) THEN TrimLeft(Tail(s)) ELSE s

RECURSIVE TrimRight(_)
TrimRight(s) ==
    IF s # <<>> /\ IsSpace(s[Len(s)]) THEN TrimRight(SubSeq(s, 1, Len(s) - 1)) ELSE s

\* TrimSpace that leaves the trailing white space
TrimSpace_leftOnly(s) == TrimLeft(s)

TrimSpace(s) == TrimRight(TrimLeft(s))

\* ---------------------------------------------------------------- issues
NoAssignee == [ID |-> "", Name |-> <<>>]

\* api.Issue (the fields the UI reads)
Issue(id, title, state, assignee, url, branch) ==
    [ID |-> id, Title |-> title, State |-> state, Assignee |-> assignee,
     URL |-> url, BranchName |-> branch]

Ann == [ID |-> "u1", Name |-> <<"A","n","n"," ","L","e","e">>]

I1 == Issue("i1", <<"F","i","x"," ","L","o","g","i","n"," ","B","u","g">>,
            "Todo", NoAssignee, "https://l/i1", "fix-login-bug")
I2 == Issue("i2", <<"A","d","d"," ","l","o","g","o","u","t">>,
            "Blocked", Ann, "", "")
I4 == Issue("i4", <<"D","o","c","s">>,
            "In Review", Ann, "https://l/i4", "docs")
I6 == Issue("i6", <<"l","o","g","i","n"," ","A","P","I">>,
            "In Progress", Ann, "https://l/i6", "login-api")

\* the issue lists the remote service answers with, in its own order
Responses == { <<I1, I2, I4>>, <<I6>> }

\* the errors a fetch fails with (err.Error())
FetchErrors == { <<"t","i","m","e","o","u","t">> }

\* api.Team
Team(id, name) == [ID |-> id, Name |-> name, Key |-> id]

\* what GetTeams and GetViewer leave in NewUI: the roster and the viewer id
\* when both calls succeed, no team and the id "" when both fail
Startups == { [teams |-> <<Team("t1", "Eng"), Team("t2", "Ops")>>, viewerID |-> "u1"],
              [teams |-> <<>>, viewerID |-> ""] }

\* the texts a user leaves in the search box
EditBuffers == { <<" ">>, <<" ","l","o","g","i","n"," ">> }

\* --------------------------------------------------------- GetIssues sort
\* stateOrder, with 999 for a status that is not in the table
stateOrder(name) ==
    CASE name = "In Review"   -> 0
      [] name = "In Progress" -> 1
      [] name = "Blocked"     -> 2
      [] name = "Todo"        -> 3
      [] name = "Backlog"     -> 4
      [] OTHER                -> 999

\* a less function that also holds between issues of equal rank
less_orEqual(a, b) == stateOrder(a.State) <= stateOrder(b.State)

\* the less function handed to sort.SliceStable
less(a, b) == stateOrder(a.State) < stateOrder(b.State)

\* insert x behind every element that is not greater than it
RECURSIVE InsertStable(_, _)
InsertStable(sorted, x) ==
    IF sorted = <<>> THEN <<x>>
    ELSE IF less(x, Head(sorted)) THEN <<x>> \o sorted
    ELSE <<Head(sorted)>> \o InsertStable(Tail(sorted), x)

\* sort.SliceStable(issues, less)
RECURSIVE SliceStable(_)
SliceStable(s) ==
    IF s = <<>> THEN <<>>
    ELSE InsertStable(SliceStable(SubSeq(s, 1, Len(s) - 1)), s[Len(s)])

\* GetIssues that returns the response as it came
GetIssues_unsorted(resp) == resp

\* GetIssues on success: the response nodes, stably sorted by status rank
GetIssues(resp) == SliceStable(resp)

\* ------------------------------------------------------------------- UI
views == <<"All", "In Review", "In Progress", "Blocked", "Todo", "Backlog">>

ErrPrefix == <<"E","r","r","o","r"," ","l","o","a","d","i","n","g"," ",
               "i","s","s","u","e","s",":"," ">>

\* ErrorIssues with a title that leaves the error out
ErrorIssues_noText(err) == << Issue("", ErrPrefix, "", NoAssignee, "", "") >>

\* []api.Issue{{Title: fmt.Sprintf("Error loading issues: %v", err)}}
ErrorIssues(err) == << Issue("", ErrPrefix \o err, "", NoAssignee, "", "") >>

\* filterIssues without the test of the status view
filterIssues_anyState(all, assigned, viewer, view, search) ==
    LET Keep(issue) ==
            /\ ~(assigned /\ issue.Assignee.ID # viewer)
            /\ ~(search # <<>> /\ ~Contains(ToLower(issue.Title), ToLower(search)))
    IN SelectSeq(all, Keep)

\* filterIssues: the issues of all that none of the three tests skips
filterIssues(all, assigned, viewer, view, search) ==
    LET currentViewName == views[view + 1]
        Keep(issue) ==
            /\ ~(assigned /\ issue.Assignee.ID # viewer)
            /\ ~(currentViewName # "All" /\ issue.State # currentViewName)
            /\ ~(search # <<>> /\ ~Contains(ToLower(issue.Title), ToLower(search)))
    IN SelectSeq(all, Keep)

\* ----------------------------------------------------------------- state
VARIABLES
    allIssues,      \* ui.allIssues
    issues,         \* ui.issues
    selectedIssue,  \* ui.selectedIssue, -1 for none
    showHelp,       \* ui.showHelp
    showSearch,     \* ui.showSearch
    searchString,   \* ui.searchString
    assignedToMe,   \* ui.assignedToMe
    viewerID,       \* ui.viewerID
    currentView,    \* ui.currentView, index into views from 0
    teams,          \* ui.teams
    currentTeam,    \* ui.currentTeam, index into teams from 0
    focus,          \* the gui's current view: "none", "issues" or "search"
    searchExists,   \* the gui has a view named "search"
    searchBuf,      \* the text in the "search" view
    cy,             \* cursor row of the "issues" view
    oy,             \* scroll origin of the "issues" view
    viewH,          \* rows of the "issues" view, its Size()
    running,        \* MainLoop has not returned
    lastEvent,      \* the handler, or layout, that ran last
    fetch,          \* what the last step asked of the remote service
    clipFailed,     \* the last handler's clipboard command failed
    respNodes,      \* resp.Issues.Nodes of a GetIssues call followed on its own
    sortedNodes,    \* the issues that call returns
    queue,          \* key events read from the terminal, waiting for MainLoop
    loopAt,         \* where the MainLoop goroutine is: "select" or "GetIssues"
    inFlight,       \* GetIssues calls that have not returned
    started,        \* refreshIssues calls begun
    applied,        \* the results assigned to allIssues, each with its call
    assigneeName,   \* the bytes of an assignee name followed on its own
    initials        \* the initials layout prints for it

uiVars  == <<allIssues, issues, selectedIssue, showHelp, showSearch, searchString,
             assignedToMe, viewerID, currentView, teams, currentTeam>>
guiVars == <<focus, searchExists, searchBuf, cy, oy, viewH>>
vars    == <<allIssues, issues, selectedIssue, showHelp, showSearch, searchString,
             assignedToMe, viewerID, currentView, teams, currentTeam,
             focus, searchExists, searchBuf, cy, oy, viewH,
             running, lastEvent, fetch, clipFailed, respNodes, sortedNodes,
             queue, loopAt, inFlight, started, applied, assigneeName, initials>>
\* the main loop followed step by step, and the initials of one name
loopVars == <<queue, loopAt, inFlight, started, applied>>
nameVars == <<assigneeName, initials>>
\* the variables of calls followed on their own, which the UI leaves alone
pureVars == <<respNodes, sortedNodes, loopVars, nameVars>>

\* the outcomes of client.GetIssues: a sorted list, or an error
FetchOutcomes ==
    { [err |-> <<>>, issues |-> GetIssues(r)] : r \in Responses } \cup
    { [err |-> e, issues |-> <<>>] : e \in FetchErrors }

\* the client methods NewUI calls, and the one refreshIssues calls
StartupCalls == {"GetTeams", "GetIssues", "GetViewer"}
RefreshCalls == {"GetIssues"}

NoFetch == [kind |-> "none", err |-> <<>>, teamID |-> "", calls |-> {}]
Fetched(o, teamID) ==
    [kind |-> IF o.err = <<>> THEN "ok" ELSE "failed", err |-> o.err, teamID |-> teamID,
     calls |-> RefreshCalls]

\* the id of the first team whatever the current one, as NewUI takes it
TeamID_first(ts, ct) == IF Len(ts) > 0 THEN ts[1].ID ELSE ""

\* the team id a fetch is scoped to
TeamID(ts, ct) == IF ct >= 0 /\ ct < Len(ts) THEN ts[ct + 1].ID ELSE ""

\* the list a fetch leaves in allIssues
Loaded(o) == IF o.err = <<>> THEN o.issues ELSE ErrorIssues(o.err)

\* what a handler leaves in the bookkeeping variables
Handled(ev, f, c) ==
    /\ lastEvent' = ev
    /\ fetch' = f
    /\ clipFailed' = c

\* NewUI, called from main with a client
Init ==
    /\ \E s \in Startups : teams = s.teams /\ viewerID = s.viewerID
    /\ \E o \in FetchOutcomes :
          /\ allIssues = Loaded(o)
          /\ issues = Loaded(o)
          /\ fetch = [Fetched(o, TeamID(teams, 0)) EXCEPT !.calls = StartupCalls]
    /\ selectedIssue = -1
    /\ showHelp = FALSE
    /\ showSearch = FALSE
    /\ searchString = <<>>
    /\ assignedToMe = FALSE
    /\ currentView = 0
    /\ currentTeam = 0
    /\ focus = "none"
    /\ searchExists = FALSE
    /\ searchBuf = <<>>
    /\ cy = 0
    /\ oy = 0
    /\ viewH = 0
    /\ running = TRUE
    /\ lastEvent = "NewUI"
    /\ clipFailed = FALSE
    /\ respNodes = <<>>
    /\ sortedNodes = <<>>
    /\ queue = <<>>
    /\ loopAt = "select"
    /\ inFlight = 0
    /\ started = 0
    /\ applied = <<>>
    /\ assigneeName = <<>>
    /\ initials = <<>>

\* a key bound on every view reaches its handler whatever view is current
OnKey_anyView(name) == running

\* a key bound on the view named name reaches its handler
OnKey(name) == running /\ focus = name

\* ---------------------------------------------------------------- layout
\* rows of the issues view: SetView("issues", 0, 3, issuesX, bottomY)
IssuesViewRows(search) == (IF search THEN TermMaxY - 5 ELSE TermMaxY - 3) - 3 - 1

\* View.SetCursor(0, y) succeeds
CursorFits(y, rows) == y >= 0 /\ y < rows

\* strings.Fields: the maximal runs of bytes that are not white space
RECURSIVE Fields(_)
Fields(s) ==
    LET t == TrimLeft(s)
        RECURSIVE Run(_)
        Run(u) == IF u = <<>> \/ IsSpace(Head(u)) THEN <<>>
                  ELSE <<Head(u)>> \o Run(Tail(u))
        first == Run(t)
    IN IF t = <<>> THEN <<>>
       ELSE <<first>> \o Fields(SubSeq(t, Len(first) + 1, Len(t)))

\* string(b) for a byte b: the character whose code point is the byte's value
\* (C3 and 89 are the two bytes of the letter E with an acute accent)
ByteRune(b) ==
    CASE b = "C3" -> "U+00C3"
      [] b = "89" -> "U+0089"
      [] OTHER    -> b

\* the characters of a string, of one byte or of the two bytes C3 89
RECURSIVE Chars(_)
Chars(s) ==
    IF s = <<>> THEN <<>>
    ELSE IF Head(s) = "C3" /\ Len(s) >= 2
         THEN <<"U+00C9">> \o Chars(SubSeq(s, 3, Len(s)))
         ELSE <<Head(s)>> \o Chars(Tail(s))

\* the initials layout prints in a row, as characters, for the bytes of a name
Initials(name) ==
    IF name = <<>> THEN <<"-", "-">>
    ELSE LET parts == Fields(name)
         IN IF Len(parts) >= 2
            THEN <<ByteRune(parts[1][1]), ByteRune(parts[2][1])>>
            ELSE IF Len(parts) = 1
                 THEN IF Len(parts[1]) >= 2
                      THEN <<ByteRune(parts[1][1]), ByteRune(parts[1][2])>>
                      ELSE Chars(parts[1])
                 ELSE <<"-", "-">>

\* the lines of the issues view (the identifier column is not followed)
ListRows(iss) ==
    [i \in 1..Len(iss) |->
        [initials |-> Initials(iss[i].Assignee.Name), title |-> iss[i].Title]]

\* the details view with the selected issue ahead of the help
DetailPane_selectionFirst(help, sel, iss) ==
    IF sel >= 0 /\ sel < Len(iss)
    THEN [kind |-> "issue", ID |-> iss[sel + 1].ID, Title |-> iss[sel + 1].Title,
          State |-> iss[sel + 1].State, Assignee |-> iss[sel + 1].Assignee.Name]
    ELSE IF help
         THEN [kind |-> "help", ID |-> "", Title |-> <<>>, State |-> "", Assignee |-> <<>>]
         ELSE [kind |-> "prompt", ID |-> "", Title |-> <<>>, State |-> "", Assignee |-> <<>>]

\* the details view: the help, the selected issue (its Assignee line is
\* printed when the name is not empty; description and comments are not
\* followed) or the prompt
DetailPane(help, sel, iss) ==
    IF help
    THEN [kind |-> "help", ID |-> "", Title |-> <<>>, State |-> "", Assignee |-> <<>>]
    ELSE IF sel >= 0 /\ sel < Len(iss)
         THEN [kind |-> "issue", ID |-> iss[sel + 1].ID, Title |-> iss[sel + 1].Title,
               State |-> iss[sel + 1].State, Assignee |-> iss[sel + 1].Assignee.Name]
         ELSE [kind |-> "prompt", ID |-> "", Title |-> <<>>, State |-> "", Assignee |-> <<>>]

\* what layout writes into the views from the state it is called in
Painted ==
    [teamsBar |-> IF Len(teams) > 0
                  THEN [i \in 1..Len(teams) |->
                           [name |-> teams[i].Name, current |-> (i - 1 = currentTeam)]]
                  ELSE <<[name |-> "All", current |-> FALSE]>>,
     title    |-> [view |-> views[currentView + 1], mine |-> assignedToMe,
                   search |-> searchString],
     rows     |-> ListRows(issues),
     details  |-> DetailPane(showHelp, selectedIssue, issues),
     status   |-> [mine |-> assignedToMe, search |-> searchString],
     search   |-> IF showSearch
                  THEN IF searchExists THEN searchBuf ELSE searchString
                  ELSE <<>>]

\* layout that clamps the cursor against the size the issues view had
layout_oldSize ==
    /\ running
    /\ IF showSearch
       THEN /\ searchExists' = TRUE
            /\ searchBuf' = IF searchExists THEN searchBuf ELSE searchString
            /\ focus' = "search"
       ELSE /\ searchExists' = FALSE
            /\ searchBuf' = <<>>
            /\ focus' = "issues"
    /\ viewH' = IssuesViewRows(showSearch)
    /\ cy' = IF /\ Len(issues) > 0
                /\ cy >= Len(issues)
                /\ CursorFits(Len(issues) - 1, viewH)
             THEN Len(issues) - 1
             ELSE cy
    /\ lastEvent' = "layout"
    /\ fetch' = NoFetch
    /\ UNCHANGED <<uiVars, oy, running, clipFailed>>
    /\ UNCHANGED pureVars

\* layout that puts the cursor on the first row of a list that is not empty
layout_firstItem ==
    /\ running
    /\ IF showSearch
       THEN /\ searchExists' = TRUE
            /\ searchBuf' = IF searchExists THEN searchBuf ELSE searchString
            /\ focus' = "search"
       ELSE /\ searchExists' = FALSE
            /\ searchBuf' = <<>>
            /\ focus' = "issues"
    /\ viewH' = IssuesViewRows(showSearch)
    /\ cy' = IF Len(issues) > 0 /\ CursorFits(0, viewH') THEN 0 ELSE cy
    /\ lastEvent' = "layout"
    /\ fetch' = NoFetch
    /\ UNCHANGED <<uiVars, oy, running, clipFailed>>
    /\ UNCHANGED pureVars

layout ==
    /\ running
    /\ IF showSearch
       THEN /\ searchExists' = TRUE
            /\ searchBuf' = IF searchExists THEN searchBuf ELSE searchString
            /\ focus' = "search"
       ELSE /\ searchExists' = FALSE
            /\ searchBuf' = <<>>
            /\ focus' = "issues"
    /\ viewH' = IssuesViewRows(showSearch)
    /\ cy' = IF /\ Len(issues) > 0
                /\ cy >= Len(issues)
                /\ CursorFits(Len(issues) - 1, viewH')
             THEN Len(issues) - 1
             ELSE cy
    /\ lastEvent' = "layout"
    /\ fetch' = NoFetch
    /\ UNCHANGED <<uiVars, oy, running, clipFailed>>
    /\ UNCHANGED pureVars

\* -------------------------------------------------------------- handlers
quit ==
    /\ running
    /\ running' = FALSE
    /\ Handled("quit", NoFetch, FALSE)
    /\ UNCHANGED <<uiVars, guiVars>>
    /\ UNCHANGED pureVars

\* the row cursorDown leaves the view at: SetCursor(cx, cy+1), and when that
\* fails at the last row, SetOrigin(ox, oy+1)
cursorDown ==
    /\ OnKey("issues")
    /\ IF Len(issues) > 0 /\ cy < Len(issues) - 1
       THEN IF CursorFits(cy + 1, viewH)
            THEN cy' = cy + 1 /\ oy' = oy
            ELSE IF cy + 1 >= viewH - 1
                 THEN oy < MaxOrigin /\ oy' = oy + 1 /\ cy' = cy
                 ELSE UNCHANGED <<cy, oy>>
       ELSE UNCHANGED <<cy, oy>>
    /\ Handled("cursorDown", NoFetch, FALSE)
    /\ UNCHANGED <<uiVars, focus, searchExists, searchBuf, viewH, running>>
    /\ UNCHANGED pureVars

\* a failing SetCursor or SetOrigin is returned to MainLoop, which ends
cursorUp ==
    /\ OnKey("issues")
    /\ IF Len(issues) > 0
       THEN IF cy > 0
            THEN IF CursorFits(cy - 1, viewH)
                 THEN cy' = cy - 1 /\ UNCHANGED <<oy, running>>
                 ELSE running' = FALSE /\ UNCHANGED <<cy, oy>>
            ELSE IF oy > 0
                 THEN oy' = oy - 1 /\ UNCHANGED <<cy, running>>
                 ELSE UNCHANGED <<cy, oy, running>>
       ELSE UNCHANGED <<cy, oy, running>>
    /\ Handled("cursorUp", NoFetch, FALSE)
    /\ UNCHANGED <<uiVars, focus, searchExists, searchBuf, viewH>>
    /\ UNCHANGED pureVars

\* Refresh that leaves the selection alone
Refresh_keepSelection(ct, o) ==
    /\ allIssues' = Loaded(o)
    /\ issues' = filterIssues(allIssues', assignedToMe, viewerID, currentView, searchString)
    /\ selectedIssue' = selectedIssue
    /\ fetch' = Fetched(o, TeamID(teams, ct))

\* Refresh that keeps the issues it has when the fetch fails
Refresh_keepOnError(ct, o) ==
    /\ allIssues' = IF o.err = <<>> THEN o.issues ELSE allIssues
    /\ issues' = filterIssues(allIssues', assignedToMe, viewerID, currentView, searchString)
    /\ selectedIssue' = -1
    /\ fetch' = Fetched(o, TeamID(teams, ct))

\* the body of refreshIssues for the team index ct and the fetch outcome o
Refresh(ct, o) ==
    /\ allIssues' = Loaded(o)
    /\ issues' = filterIssues(allIssues', assignedToMe, viewerID, currentView, searchString)
    /\ selectedIssue' = -1
    /\ fetch' = Fetched(o, TeamID(teams, ct))

\* refreshIssues bound to every view, as the key was before the search view
refreshIssues_global ==
    /\ running
    /\ \E o \in FetchOutcomes : Refresh(currentTeam, o)
    /\ lastEvent' = "refreshIssues"
    /\ clipFailed' = FALSE
    /\ UNCHANGED <<showHelp, showSearch, searchString, assignedToMe, viewerID,
                   currentView, teams, currentTeam, guiVars, running>>
    /\ UNCHANGED pureVars

refreshIssues ==
    /\ OnKey("issues")
    /\ \E o \in FetchOutcomes : Refresh(currentTeam, o)
    /\ lastEvent' = "refreshIssues"
    /\ clipFailed' = FALSE
    /\ UNCHANGED <<showHelp, showSearch, searchString, assignedToMe, viewerID,
                   currentView, teams, currentTeam, guiVars, running>>
    /\ UNCHANGED pureVars

\* selectIssue without the range test
selectIssue_unchecked ==
    /\ OnKey("issues")
    /\ selectedIssue' = cy
    /\ Handled("selectIssue", NoFetch, FALSE)
    /\ UNCHANGED <<allIssues, issues, showHelp, showSearch, searchString, assignedToMe,
                   viewerID, currentView, teams, currentTeam, guiVars, running>>
    /\ UNCHANGED pureVars

selectIssue ==
    /\ OnKey("issues")
    /\ selectedIssue' = IF cy >= 0 /\ cy < Len(issues) THEN cy ELSE selectedIssue
    /\ Handled("selectIssue", NoFetch, FALSE)
    /\ UNCHANGED <<allIssues, issues, showHelp, showSearch, searchString, assignedToMe,
                   viewerID, currentView, teams, currentTeam, guiVars, running>>
    /\ UNCHANGED pureVars

\* toggleHelp bound to every view, as the key was before the search view
toggleHelp_global ==
    /\ running
    /\ showHelp' = ~showHelp
    /\ Handled("toggleHelp", NoFetch, FALSE)
    /\ UNCHANGED <<allIssues, issues, selectedIssue, showSearch, searchString, assignedToMe,
                   viewerID, currentView, teams, currentTeam, guiVars, running>>
    /\ UNCHANGED pureVars

toggleHelp ==
    /\ OnKey("issues")
    /\ showHelp' = ~showHelp
    /\ Handled("toggleHelp", NoFetch, FALSE)
    /\ UNCHANGED <<allIssues, issues, selectedIssue, showSearch, searchString, assignedToMe,
                   viewerID, currentView, teams, currentTeam, guiVars, running>>
    /\ UNCHANGED pureVars

\* toggleAssigned that does not recompute issues
toggleAssigned_stale ==
    /\ OnKey("issues")
    /\ assignedToMe' = ~assignedToMe
    /\ selectedIssue' = -1
    /\ Handled("toggleAssigned", NoFetch, FALSE)
    /\ UNCHANGED <<allIssues, issues, showHelp, showSearch, searchString, viewerID,
                   currentView, teams, currentTeam, guiVars, running>>
    /\ UNCHANGED pureVars

toggleAssigned ==
    /\ OnKey("issues")
    /\ assignedToMe' = ~assignedToMe
    /\ issues' = filterIssues(allIssues, assignedToMe', viewerID, currentView, searchString)
    /\ selectedIssue' = -1
    /\ Handled("toggleAssigned", NoFetch, FALSE)
    /\ UNCHANGED <<allIssues, showHelp, showSearch, searchString, viewerID,
                   currentView, teams, currentTeam, guiVars, running>>
    /\ UNCHANGED pureVars

\* toggleSearch bound to every view, as the key was before the search view
toggleSearch_global ==
    /\ running
    /\ showSearch' = ~showSearch
    /\ focus' = IF showSearch' /\ searchExists THEN "search" ELSE focus
    /\ Handled("toggleSearch", NoFetch, FALSE)
    /\ UNCHANGED <<allIssues, issues, selectedIssue, showHelp, searchString, assignedToMe,
                   viewerID, currentView, teams, currentTeam,
                   searchExists, searchBuf, cy, oy, viewH, running>>
    /\ UNCHANGED pureVars

\* SetCurrentView("search") fails, and is ignored, while there is no such view
toggleSearch ==
    /\ OnKey("issues")
    /\ showSearch' = ~showSearch
    /\ focus' = IF showSearch' /\ searchExists THEN "search" ELSE focus
    /\ Handled("toggleSearch", NoFetch, FALSE)
    /\ UNCHANGED <<allIssues, issues, selectedIssue, showHelp, searchString, assignedToMe,
                   viewerID, currentView, teams, currentTeam,
                   searchExists, searchBuf, cy, oy, viewH, running>>
    /\ UNCHANGED pureVars

\* View.Buffer(): every line of the view followed by a newline
Buffer(text) == IF text = <<>> THEN <<>> ELSE text \o <<"\n">>

\* the default editor of the search view, on any key that is not bound
editSearch ==
    /\ OnKey("search")
    /\ \E text \in EditBuffers : searchBuf' = text
    /\ Handled("editSearch", NoFetch, FALSE)
    /\ UNCHANGED <<uiVars, focus, searchExists, cy, oy, viewH, running>>
    /\ UNCHANGED pureVars

closeSearch ==
    /\ OnKey("search")
    /\ searchString' = TrimSpace(Buffer(searchBuf))
    /\ issues' = filterIssues(allIssues, assignedToMe, viewerID, currentView, searchString')
    /\ selectedIssue' = -1
    /\ showSearch' = FALSE
    /\ focus' = "issues"
    /\ Handled("closeSearch", NoFetch, FALSE)
    /\ UNCHANGED <<allIssues, showHelp, assignedToMe, viewerID, currentView, teams,
                   currentTeam, searchExists, searchBuf, cy, oy, viewH, running>>
    /\ UNCHANGED pureVars

\* cancelSearch that closes the box and keeps the applied search text
cancelSearch_keepText ==
    /\ OnKey("search")
    /\ searchBuf' = <<>>
    /\ issues' = filterIssues(allIssues, assignedToMe, viewerID, currentView, searchString)
    /\ selectedIssue' = -1
    /\ showSearch' = FALSE
    /\ focus' = "issues"
    /\ Handled("cancelSearch", NoFetch, FALSE)
    /\ UNCHANGED <<allIssues, showHelp, searchString, assignedToMe, viewerID, currentView,
                   teams, currentTeam, searchExists, cy, oy, viewH, running>>
    /\ UNCHANGED pureVars

cancelSearch ==
    /\ OnKey("search")
    /\ searchBuf' = <<>>
    /\ searchString' = <<>>
    /\ issues' = filterIssues(allIssues, assignedToMe, viewerID, currentView, searchString')
    /\ selectedIssue' = -1
    /\ showSearch' = FALSE
    /\ focus' = "issues"
    /\ Handled("cancelSearch", NoFetch, FALSE)
    /\ UNCHANGED <<allIssues, showHelp, assignedToMe, viewerID, currentView, teams,
                   currentTeam, searchExists, cy, oy, viewH, running>>
    /\ UNCHANGED pureVars

\* ui.currentView-- with its wrap to the last view
prevViewIndex(v) == IF v - 1 < 0 THEN Len(views) - 1 ELSE v - 1

\* nextViewIndex that wraps one view early
nextViewIndex_skipLast(v) == IF v + 1 >= Len(views) - 1 THEN 0 ELSE v + 1

\* ui.currentView++ with its wrap to the first view
nextViewIndex(v) == IF v + 1 >= Len(views) THEN 0 ELSE v + 1

\* prevTeamIndex without the wrap
prevTeamIndex_noWrap(ct, n) == ct - 1

\* ui.currentTeam-- with its wrap to the last of n teams
prevTeamIndex(ct, n) == IF ct - 1 < 0 THEN n - 1 ELSE ct - 1

\* ui.currentTeam++ with its wrap to the first of n teams
nextTeamIndex(ct, n) == IF ct + 1 >= n THEN 0 ELSE ct + 1

prevView ==
    /\ OnKey("issues")
    /\ currentView' = prevViewIndex(currentView)
    /\ issues' = filterIssues(allIssues, assignedToMe, viewerID, currentView', searchString)
    /\ selectedIssue' = -1
    /\ Handled("prevView", NoFetch, FALSE)
    /\ UNCHANGED <<allIssues, showHelp, showSearch, searchString, assignedToMe, viewerID,
                   teams, currentTeam, guiVars, running>>
    /\ UNCHANGED pureVars

\* nextView that refetches the issues before it filters them
nextView_refetch ==
    /\ OnKey("issues")
    /\ currentView' = nextViewIndex(currentView)
    /\ \E o \in FetchOutcomes :
          /\ allIssues' = Loaded(o)
          /\ issues' = filterIssues(allIssues', assignedToMe, viewerID, currentView', searchString)
          /\ fetch' = Fetched(o, TeamID(teams, currentTeam))
    /\ selectedIssue' = -1
    /\ lastEvent' = "nextView"
    /\ clipFailed' = FALSE
    /\ UNCHANGED <<showHelp, showSearch, searchString, assignedToMe, viewerID,
                   teams, currentTeam, guiVars, running>>
    /\ UNCHANGED pureVars

nextView ==
    /\ OnKey("issues")
    /\ currentView' = nextViewIndex(currentView)
    /\ issues' = filterIssues(allIssues, assignedToMe, viewerID, currentView', searchString)
    /\ selectedIssue' = -1
    /\ Handled("nextView", NoFetch, FALSE)
    /\ UNCHANGED <<allIssues, showHelp, showSearch, searchString, assignedToMe, viewerID,
                   teams, currentTeam, guiVars, running>>
    /\ UNCHANGED pureVars

prevTeam ==
    /\ OnKey("issues")
    /\ IF Len(teams) = 0
       THEN /\ fetch' = NoFetch
            /\ UNCHANGED <<allIssues, issues, selectedIssue, currentTeam>>
       ELSE /\ currentTeam' = prevTeamIndex(currentTeam, Len(teams))
            /\ \E o \in FetchOutcomes : Refresh(currentTeam', o)
    /\ lastEvent' = "prevTeam"
    /\ clipFailed' = FALSE
    /\ UNCHANGED <<showHelp, showSearch, searchString, assignedToMe, viewerID,
                   currentView, teams, guiVars, running>>
    /\ UNCHANGED pureVars

\* nextTeam that goes back to the view All
nextTeam_resetView ==
    /\ OnKey("issues")
    /\ IF Len(teams) = 0
       THEN /\ fetch' = NoFetch
            /\ UNCHANGED <<allIssues, issues, selectedIssue, currentTeam, currentView>>
       ELSE /\ currentTeam' = nextTeamIndex(currentTeam, Len(teams))
            /\ currentView' = 0
            /\ \E o \in FetchOutcomes :
                  /\ allIssues' = Loaded(o)
                  /\ issues' = filterIssues(allIssues', assignedToMe, viewerID, 0, searchString)
                  /\ selectedIssue' = -1
                  /\ fetch' = Fetched(o, TeamID(teams, currentTeam'))
    /\ lastEvent' = "nextTeam"
    /\ clipFailed' = FALSE
    /\ UNCHANGED <<showHelp, showSearch, searchString, assignedToMe, viewerID,
                   teams, guiVars, running>>
    /\ UNCHANGED pureVars

nextTeam ==
    /\ OnKey("issues")
    /\ IF Len(teams) = 0
       THEN /\ fetch' = NoFetch
            /\ UNCHANGED <<allIssues, issues, selectedIssue, currentTeam>>
       ELSE /\ currentTeam' = nextTeamIndex(currentTeam, Len(teams))
            /\ \E o \in FetchOutcomes : Refresh(currentTeam', o)
    /\ lastEvent' = "nextTeam"
    /\ clipFailed' = FALSE
    /\ UNCHANGED <<showHelp, showSearch, searchString, assignedToMe, viewerID,
                   currentView, teams, guiVars, running>>
    /\ UNCHANGED pureVars

\* copyToClipboard either runs the clipboard command or returns its error;
\* copyURL and copyBranch return that error to MainLoop, Run returns it to
\* main, and main ends the process with log.Fatal
Copy(ev, text) ==
    /\ OnKey("issues")
    /\ IF selectedIssue >= 0 /\ selectedIssue < Len(issues) /\ text # ""
       THEN \E failed \in BOOLEAN :
               /\ clipFailed' = failed
               /\ running' = ~failed
       ELSE clipFailed' = FALSE /\ running' = running
    /\ lastEvent' = ev
    /\ fetch' = NoFetch
    /\ UNCHANGED <<uiVars, guiVars>>
    /\ UNCHANGED pureVars

copyURL ==
    Copy("copyURL", IF selectedIssue >= 0 /\ selectedIssue < Len(issues)
                    THEN issues[selectedIssue + 1].URL ELSE "")

copyBranch ==
    Copy("copyBranch", IF selectedIssue >= 0 /\ selectedIssue < Len(issues)
                       THEN issues[selectedIssue + 1].BranchName ELSE "")

Next ==
    \/ layout
    \/ quit
    \/ cursorDown
    \/ cursorUp
    \/ refreshIssues
    \/ selectIssue
    \/ toggleHelp
    \/ toggleAssigned
    \/ toggleSearch
    \/ editSearch
    \/ closeSearch
    \/ cancelSearch
    \/ prevView
    \/ nextView
    \/ prevTeam
    \/ nextTeam
    \/ copyURL
    \/ copyBranch

Spec == Init /\ [][Next]_vars

\* ------------------------------------------------- GetIssues on its own
S1 == Issue("s1", <<>>, "Todo", NoAssignee, "", "")
S2 == Issue("s2", <<>>, "Blocked", NoAssignee, "", "")
S3 == Issue("s3", <<>>, "Todo", NoAssignee, "", "")
S4 == Issue("s4", <<>>, "In Review", NoAssignee, "", "")
S5 == Issue("s5", <<>>, "Canceled", NoAssignee, "", "")

\* the responses followed: up to MaxNodes different issues in any order
RawResponses ==
    { r \in UNION { [1..n -> {S1, S2, S3, S4, S5}] : n \in 0..MaxNodes } :
        \A i, j \in 1..Len(r) : i # j => r[i] # r[j] }

\* a response has arrived in GetIssues and no UI exists
InitSort ==
    /\ respNodes \in RawResponses
    /\ sortedNodes = <<>>
    /\ lastEvent = "response"
    /\ allIssues = <<>>
    /\ issues = <<>>
    /\ selectedIssue = -1
    /\ showHelp = FALSE
    /\ showSearch = FALSE
    /\ searchString = <<>>
    /\ assignedToMe = FALSE
    /\ viewerID = ""
    /\ currentView = 0
    /\ teams = <<>>
    /\ currentTeam = 0
    /\ focus = "none"
    /\ searchExists = FALSE
    /\ searchBuf = <<>>
    /\ cy = 0
    /\ oy = 0
    /\ viewH = 0
    /\ running = FALSE
    /\ fetch = NoFetch
    /\ clipFailed = FALSE
    /\ queue = <<>>
    /\ loopAt = "select"
    /\ inFlight = 0
    /\ started = 0
    /\ applied = <<>>
    /\ assigneeName = <<>>
    /\ initials = <<>>

\* GetIssues sorts the response and returns it
sortResponse ==
    /\ lastEvent = "response"
    /\ sortedNodes' = GetIssues(respNodes)
    /\ lastEvent' = "GetIssues"
    /\ UNCHANGED <<uiVars, guiVars, running, fetch, clipFailed, respNodes>>
    /\ UNCHANGED <<loopVars, nameVars>>

NextSort == sortResponse

SpecSort == InitSort /\ [][NextSort]_vars

\* -------------------------------------------- the main loop step by step
\* the keys followed: refresh and toggle-help
LoopKeys == {"r", "h"}

\* the refresh keys in a queue of key events
RECURSIVE Refreshes(_)
Refreshes(q) ==
    IF q = <<>> THEN 0 ELSE (IF Head(q) = "r" THEN 1 ELSE 0) + Refreshes(Tail(q))

\* the UI after NewUI and a first layout, the issues view current
InitLoop ==
    /\ teams = <<Team("t1", "Eng"), Team("t2", "Ops")>>
    /\ viewerID = "u1"
    /\ \E o \in FetchOutcomes :
          /\ allIssues = Loaded(o)
          /\ issues = Loaded(o)
    /\ selectedIssue = -1
    /\ showHelp = FALSE
    /\ showSearch = FALSE
    /\ searchString = <<>>
    /\ assignedToMe = FALSE
    /\ currentView = 0
    /\ currentTeam = 0
    /\ focus = "issues"
    /\ searchExists = FALSE
    /\ searchBuf = <<>>
    /\ cy = 0
    /\ oy = 0
    /\ viewH = IssuesViewRows(FALSE)
    /\ running = TRUE
    /\ lastEvent = "layout"
    /\ fetch = NoFetch
    /\ clipFailed = FALSE
    /\ respNodes = <<>>
    /\ sortedNodes = <<>>
    /\ queue = <<>>
    /\ loopAt = "select"
    /\ inFlight = 0
    /\ started = 0
    /\ applied = <<>>
    /\ assigneeName = <<>>
    /\ initials = <<>>

\* the goroutine that polls the terminal sends a key event, whatever MainLoop
\* is doing
keyPressed ==
    /\ running
    /\ Len(queue) < MaxKeys
    /\ \E k \in LoopKeys :
          /\ k = "r" => started + Refreshes(queue) < MaxTriggers
          /\ queue' = Append(queue, k)
    /\ UNCHANGED <<uiVars, guiVars, running, lastEvent, fetch, clipFailed>>
    /\ UNCHANGED <<respNodes, sortedNodes, loopAt, inFlight, started, applied, nameVars>>

\* refreshIssues run on a goroutine of its own, MainLoop going on
beginRefresh_goroutine ==
    /\ running
    /\ focus = "issues"
    /\ queue # <<>>
    /\ Head(queue) = "r"
    /\ queue' = Tail(queue)
    /\ loopAt' = loopAt
    /\ inFlight' = inFlight + 1
    /\ started' = started + 1
    /\ UNCHANGED <<uiVars, guiVars, running, lastEvent, fetch, clipFailed>>
    /\ UNCHANGED <<respNodes, sortedNodes, applied, nameVars>>

\* MainLoop takes a refresh key and refreshIssues calls client.GetIssues
beginRefresh ==
    /\ running
    /\ loopAt = "select"
    /\ focus = "issues"
    /\ queue # <<>>
    /\ Head(queue) = "r"
    /\ queue' = Tail(queue)
    /\ loopAt' = "GetIssues"
    /\ inFlight' = inFlight + 1
    /\ started' = started + 1
    /\ UNCHANGED <<uiVars, guiVars, running, lastEvent, fetch, clipFailed>>
    /\ UNCHANGED <<respNodes, sortedNodes, applied, nameVars>>

\* GetIssues returns and refreshIssues runs to its end
endRefresh ==
    /\ inFlight > 0
    /\ \E o \in FetchOutcomes : Refresh(currentTeam, o)
    /\ applied' = Append(applied, [call |-> started, issues |-> allIssues'])
    /\ inFlight' = inFlight - 1
    /\ loopAt' = "select"
    /\ lastEvent' = "refreshIssues"
    /\ clipFailed' = FALSE
    /\ UNCHANGED <<showHelp, showSearch, searchString, assignedToMe, viewerID,
                   currentView, teams, currentTeam, guiVars, running>>
    /\ UNCHANGED <<respNodes, sortedNodes, queue, started, nameVars>>

\* MainLoop takes a help key and toggleHelp runs
handleHelp ==
    /\ running
    /\ loopAt = "select"
    /\ focus = "issues"
    /\ queue # <<>>
    /\ Head(queue) = "h"
    /\ queue' = Tail(queue)
    /\ showHelp' = ~showHelp
    /\ Handled("toggleHelp", NoFetch, FALSE)
    /\ UNCHANGED <<allIssues, issues, selectedIssue, showSearch, searchString, assignedToMe,
                   viewerID, currentView, teams, currentTeam, guiVars, running>>
    /\ UNCHANGED <<respNodes, sortedNodes, loopAt, inFlight, started, applied, nameVars>>

NextLoop ==
    \/ keyPressed
    \/ beginRefresh
    \/ endRefresh
    \/ handleHelp

SpecLoop == InitLoop /\ [][NextLoop]_vars

\* ------------------------------------------- the initials on their own
\* the characters of the names followed, each as its UTF-8 bytes: two ASCII
\* letters, the space, and the two-byte letter E with an acute accent
NameChars == { <<"A">>, <<"b">>, <<" ">>, <<"C3", "89">> }

\* the bytes of a sequence of characters
RECURSIVE Concat(_)
Concat(cs) == IF cs = <<>> THEN <<>> ELSE Head(cs) \o Concat(Tail(cs))

\* issue.Assignee.Name: the bytes of up to MaxName characters
Names == { Concat(cs) : cs \in UNION { [1..n -> NameChars] : n \in 0..MaxName } }

\* layout has reached an issue with this assignee name and no other state matters
InitInitials ==
    /\ assigneeName \in Names
    /\ initials = <<>>
    /\ lastEvent = "name"
    /\ allIssues = <<>>
    /\ issues = <<>>
    /\ selectedIssue = -1
    /\ showHelp = FALSE
    /\ showSearch = FALSE
    /\ searchString = <<>>
    /\ assignedToMe = FALSE
    /\ viewerID = ""
    /\ currentView = 0
    /\ teams = <<>>
    /\ currentTeam = 0
    /\ focus = "none"
    /\ searchExists = FALSE
    /\ searchBuf = <<>>
    /\ cy = 0
    /\ oy = 0
    /\ viewH = 0
    /\ running = FALSE
    /\ fetch = NoFetch
    /\ clipFailed = FALSE
    /\ respNodes = <<>>
    /\ sortedNodes = <<>>
    /\ queue = <<>>
    /\ loopAt = "select"
    /\ inFlight = 0
    /\ started = 0
    /\ applied = <<>>

\* the body of layout's loop over the issues computes the initials
paintInitials ==
    /\ lastEvent = "name"
    /\ initials' = Initials(assigneeName)
    /\ lastEvent' = "initials"
    /\ UNCHANGED <<uiVars, guiVars, running, fetch, clipFailed>>
    /\ UNCHANGED <<respNodes, sortedNodes, loopVars, assigneeName>>

NextInitials == paintInitials

SpecInitials == InitInitials /\ [][NextInitials]_vars

\* ------------------------------------------------------------ properties
TypeOK ==
    /\ selectedIssue \in -1..3
    /\ currentView \in 0..5
    /\ cy \in 0..3
    /\ oy \in 0..MaxOrigin
    /\ focus \in {"none", "issues", "search"}
    /\ lastEvent \in STRING
    /\ fetch.kind \in {"none", "ok", "failed"}
    /\ fetch.calls \subseteq StartupCalls

NoFilter == currentView = 0 /\ ~assignedToMe /\ searchString = <<>>

\* the index in issues of the row the issues view highlights
Highlighted == oy + cy

\* C1: in every reachable state issues is allIssues filtered by the current
\* assigned-to-me flag, viewer id, status view and search text.
C1_IssuesDerived ==
    issues = filterIssues(allIssues, assignedToMe, viewerID, currentView, searchString)

C1_Witness ==
    /\ lastEvent = "toggleAssigned"
    /\ assignedToMe
    /\ currentView # 0
    /\ Len(issues) > 0
    /\ Len(issues) < Len(allIssues)

\* C2: selectedIssue is -1 or an index of the issues now displayed.
C2_SelectionInRange ==
    selectedIssue = -1 \/ (0 <= selectedIssue /\ selectedIssue < Len(issues))

C2_Witness ==
    /\ lastEvent = "selectIssue"
    /\ selectedIssue = Len(issues) - 1
    /\ selectedIssue > 0
    /\ Len(issues) < Len(allIssues)

ResetEvents == {"refreshIssues", "toggleAssigned", "closeSearch", "cancelSearch",
                "prevView", "nextView"}
TeamEvents == {"prevTeam", "nextTeam"}

\* C3 as stated: right after refresh, toggle-assigned, apply-search,
\* cancel-search, prev-view, next-view, prev-team or next-team, with or without
\* teams, nothing is selected.
C3_Original ==
    lastEvent \in ResetEvents \cup TeamEvents => selectedIssue = -1

\* C3 amended: right after refresh, toggle-assigned, apply-search,
\* cancel-search, prev-view or next-view, and right after prev-team or next-team
\* when there is at least one team, nothing is selected.
C3_SelectionReset ==
    (lastEvent \in ResetEvents \/ (lastEvent \in TeamEvents /\ Len(teams) > 0))
        => selectedIssue = -1

C3_Witness ==
    /\ lastEvent = "nextTeam"
    /\ Len(teams) > 0
    /\ currentTeam = 0
    /\ fetch.kind = "ok"
    /\ Len(issues) > 0
    /\ selectedIssue = -1

\* C4: after a clipboard copy that failed the program is still running.
C4_CopyFailureSurvived ==
    (lastEvent \in {"copyURL", "copyBranch"} /\ clipFailed) => running

\* C5: after a failed fetch, whatever the filters, issues is not empty and
\* holds an issue whose title carries the error text.
C5_ErrorShown ==
    fetch.kind = "failed" =>
        /\ Len(issues) > 0
        /\ \E i \in 1..Len(issues) : Contains(issues[i].Title, fetch.err)

\* C6: a failed fetch leaves in allIssues exactly one issue, whose title
\* contains the error text, and with no filter active issues is that list.
C6_FetchFailure ==
    fetch.kind = "failed" =>
        /\ Len(allIssues) = 1
        /\ Contains(allIssues[1].Title, fetch.err)
        /\ (NoFilter => issues = allIssues)

C6_Witness ==
    /\ lastEvent = "refreshIssues"
    /\ fetch.kind = "failed"
    /\ NoFilter
    /\ Len(issues) = 1
    /\ Contains(issues[1].Title, fetch.err)

\* C7: with the assigned-to-me filter on, no issue without an assignee is
\* displayed, whatever the viewer id.
C7_UnassignedDropped ==
    assignedToMe => \A i \in 1..Len(issues) : issues[i].Assignee.ID # ""

\* s is t with some of its elements left out
IsSubsequence(s, t) ==
    \E f \in [1..Len(s) -> 1..Len(t)] :
        /\ \A i \in 1..Len(s) : s[i] = t[f[i]]
        /\ \A i, j \in 1..Len(s) : i < j => f[i] < f[j]

\* C8: issues is a subsequence of allIssues in the same order, and every
\* issue in it passes each active filter: assignee is the viewer, state is the
\* status view, lowercased title contains the lowercased search text.
C8_FilterSound ==
    /\ IsSubsequence(issues, allIssues)
    /\ \A i \in 1..Len(issues) :
          /\ assignedToMe => issues[i].Assignee.ID = viewerID
          /\ views[currentView + 1] # "All" => issues[i].State = views[currentView + 1]
          /\ searchString # <<>> =>
                \E k \in 1..Len(issues[i].Title) :
                    \A m \in 1..Len(searchString) :
                        /\ k + m - 1 <= Len(issues[i].Title)
                        /\ ToLowerChar(issues[i].Title[k + m - 1])
                              = ToLowerChar(searchString[m])

C8_Witness ==
    /\ lastEvent = "closeSearch"
    /\ searchString = <<"l","o","g","i","n">>
    /\ currentView = 4
    /\ \E i \in 1..Len(issues) : issues[i].Title[5] = "L"
    /\ Len(issues) < Len(allIssues)

\* C9: a move-down or move-up from a highlighted row inside the list leaves
\* the highlighted row inside the list; on an empty list they change nothing.
C9_MoveClamped ==
    [][ lastEvent' \in {"cursorDown", "cursorUp"} =>
           /\ (Len(issues) > 0 /\ Highlighted <= Len(issues) - 1)
                 => Highlighted' \in 0..(Len(issues') - 1)
           /\ Len(issues) = 0 => (cy' = cy /\ oy' = oy) ]_vars

\* C10: confirm-select on a highlighted row inside the list selects the issue
\* on that row.
C10_SelectsHighlighted ==
    (lastEvent = "selectIssue" /\ Highlighted < Len(issues))
        => selectedIssue = Highlighted

RECURSIVE nextViewTimes(_, _)
nextViewTimes(v, n) == IF n = 0 THEN v ELSE nextViewTimes(nextViewIndex(v), n - 1)

RECURSIVE prevViewTimes(_, _)
prevViewTimes(v, n) == IF n = 0 THEN v ELSE prevViewTimes(prevViewIndex(v), n - 1)

RECURSIVE nextTeamTimes(_, _, _)
nextTeamTimes(ct, len, n) ==
    IF n = 0 THEN ct ELSE nextTeamTimes(nextTeamIndex(ct, len), len, n - 1)

RECURSIVE prevTeamTimes(_, _, _)
prevTeamTimes(ct, len, n) ==
    IF n = 0 THEN ct ELSE prevTeamTimes(prevTeamIndex(ct, len), len, n - 1)

\* C11: from the status view and the team reached, six steps of next-view, or
\* of prev-view, lead back to the same view, next-view then prev-view leaves the
\* view as it is, and as many next-team, or prev-team, steps as there are teams
\* lead back to the same team.
C11_CyclicNavigation ==
    /\ nextViewTimes(currentView, 6) = currentView
    /\ prevViewTimes(currentView, 6) = currentView
    /\ prevViewIndex(nextViewIndex(currentView)) = currentView
    /\ Len(teams) > 0 =>
          /\ nextTeamTimes(currentTeam, Len(teams), Len(teams)) = currentTeam
          /\ prevTeamTimes(currentTeam, Len(teams), Len(teams)) = currentTeam

C11_Witness ==
    /\ lastEvent = "nextView"
    /\ currentView = 0
    /\ Len(teams) = 2
    /\ currentTeam = 1

\* C12: currentView is an index of views, and with at least one team
\* currentTeam is an index of teams.
C12_IndicesInRange ==
    /\ 0 <= currentView /\ currentView < 6
    /\ Len(teams) > 0 => (0 <= currentTeam /\ currentTeam < Len(teams))

C12_Witness ==
    /\ lastEvent = "prevTeam"
    /\ Len(teams) = 2
    /\ currentTeam = 1
    /\ currentView = 5

\* C13 as stated: the refresh key is taken in every mode, also while the
\* search editor has focus.
C13_Original ==
    (running /\ focus = "search") => ENABLED refreshIssues

\* C13 amended: a refresh is handled only while the issues view has focus, and
\* there it fetches, recomputes issues and resets the selection; while the
\* search view has focus no step fetches or changes allIssues.
C13_RefreshInNormalMode ==
    [][ /\ lastEvent' = "refreshIssues" =>
              /\ focus = "issues"
              /\ fetch'.kind # "none"
              /\ fetch'.teamID = TeamID(teams, currentTeam)
              /\ issues' = filterIssues(allIssues', assignedToMe, viewerID,
                                        currentView, searchString)
              /\ selectedIssue' = -1
        /\ focus = "search" => (fetch'.kind = "none" /\ allIssues' = allIssues) ]_vars

C13_Witness ==
    /\ lastEvent = "refreshIssues"
    /\ focus = "issues"
    /\ fetch.kind = "ok"
    /\ searchString # <<>>
    /\ Len(issues) > 0

\* C14 as stated: the help key is taken in every mode, also while the search
\* editor has focus.
C14_Original ==
    (running /\ focus = "search") => ENABLED toggleHelp

\* C14 amended: toggle-help is handled only while the issues view has focus,
\* and there it flips showHelp, so that two of them restore it; while the
\* search view has focus no step changes showHelp.
C14_HelpInNormalMode ==
    [][ /\ lastEvent' = "toggleHelp" =>
              /\ focus = "issues"
              /\ showHelp' \in BOOLEAN
              /\ showHelp' # showHelp
        /\ focus = "search" => showHelp' = showHelp ]_vars

C14_Witness ==
    /\ lastEvent = "toggleHelp"
    /\ focus = "issues"
    /\ showHelp = FALSE

\* the rank of a status in the pipeline order, 999 for any other status
C15_Rank(name) ==
    LET table == [n \in {"In Review", "In Progress", "Blocked", "Todo", "Backlog"} |->
                     CASE n = "In Review" -> 0 [] n = "In Progress" -> 1
                       [] n = "Blocked" -> 2 [] n = "Todo" -> 3 [] n = "Backlog" -> 4]
    IN IF name \in DOMAIN table THEN table[name] ELSE 999

\* C15: what GetIssues returns is the response rearranged, with ranks that
\* never decrease and with issues of equal rank in the order of the response;
\* Todo, Blocked, Todo, In Review becomes In Review, Blocked, Todo, Todo.
C15_StableSort ==
    lastEvent = "GetIssues" =>
        /\ Len(sortedNodes) = Len(respNodes)
        /\ \E p \in [1..Len(respNodes) -> 1..Len(respNodes)] :
              /\ \A i \in 1..Len(respNodes) : sortedNodes[i] = respNodes[p[i]]
              /\ \A i, j \in 1..Len(respNodes) :
                    i < j =>
                       /\ p[i] # p[j]
                       /\ C15_Rank(sortedNodes[i].State) <= C15_Rank(sortedNodes[j].State)
                       /\ C15_Rank(sortedNodes[i].State) = C15_Rank(sortedNodes[j].State)
                             => p[i] < p[j]
        /\ respNodes = <<S1, S2, S3, S4>> => sortedNodes = <<S4, S2, S1, S3>>

C15_Witness ==
    /\ lastEvent = "GetIssues"
    /\ respNodes = <<S1, S2, S3, S4>>
    /\ sortedNodes = <<S4, S2, S1, S3>>

\* C16: with assigned-to-me off and no search text, a status view other than
\* All displays exactly the issues of allIssues with that status and All
\* displays all of allIssues; the issues displayed are always in an order of
\* status ranks that never decreases.
C16_StatusView ==
    /\ (~assignedToMe /\ searchString = <<>>) =>
          LET name == views[currentView + 1]
              want == { i \in 1..Len(allIssues) :
                          name = "All" \/ allIssues[i].State = name }
          IN /\ Len(issues) = Cardinality(want)
             /\ \A i \in want : \E k \in 1..Len(issues) : issues[k] = allIssues[i]
             /\ \A k \in 1..Len(issues) : name # "All" => issues[k].State = name
             /\ name = "All" => issues = allIssues
    /\ \A i, j \in 1..Len(issues) :
          i < j => C15_Rank(issues[i].State) <= C15_Rank(issues[j].State)

C16_Witness ==
    /\ lastEvent \in {"prevView", "nextView"}
    /\ views[currentView + 1] = "Blocked"
    /\ ~assignedToMe
    /\ searchString = <<>>
    /\ Len(allIssues) = 3
    /\ issues = <<I2>>

\* C17: with at least one team, prev-team and next-team move currentTeam by
\* one, cyclically, and fetch once for the id of the team that is then current,
\* with the effects of a refresh; with no team they fetch nothing and change
\* nothing, and a refresh fetches for no team.
C17_TeamSwitch ==
    [][ /\ lastEvent' \in TeamEvents =>
              IF Len(teams) = 0
              THEN fetch'.kind = "none" /\ UNCHANGED <<uiVars, guiVars>>
              ELSE /\ teams' = teams
                   /\ currentTeam' = IF lastEvent' = "nextTeam"
                                     THEN (currentTeam + 1) % Len(teams)
                                     ELSE (currentTeam + Len(teams) - 1) % Len(teams)
                   /\ fetch'.kind \in {"ok", "failed"}
                   /\ fetch'.teamID = teams[currentTeam' + 1].ID
                   /\ fetch'.kind = "failed" =>
                         /\ Len(allIssues') = 1
                         /\ Contains(allIssues'[1].Title, fetch'.err)
                   /\ fetch'.kind = "ok" =>
                         \E r \in Responses :
                            /\ Len(allIssues') = Len(r)
                            /\ \A i \in 1..Len(r) :
                                  \E k \in 1..Len(r) : allIssues'[k] = r[i]
                   /\ issues' = filterIssues(allIssues', assignedToMe, viewerID,
                                             currentView, searchString)
                   /\ selectedIssue' = -1
        /\ (lastEvent' = "refreshIssues" /\ Len(teams) = 0) =>
              (fetch'.kind # "none" /\ fetch'.teamID = "") ]_vars

C17_Witness ==
    /\ lastEvent = "nextTeam"
    /\ currentTeam = 1
    /\ fetch.teamID = "t2"
    /\ fetch.kind = "failed"
    /\ selectedIssue = -1

\* t is b without the white space at its two ends
C18_IsTrimOf(t, b) ==
    /\ t = <<>> \/ (~IsSpace(t[1]) /\ ~IsSpace(t[Len(t)]))
    /\ \E i, j \in 0..Len(b) :
          /\ i + Len(t) + j = Len(b)
          /\ SubSeq(b, i + 1, i + Len(t)) = t
          /\ \A k \in 1..i : IsSpace(b[k])
          /\ \A k \in (Len(b) - j + 1)..Len(b) : IsSpace(b[k])

\* C18: apply-search sets searchString to the text of the search box without
\* the white space at its ends, recomputes issues, resets the selection, hides
\* the search box and gives the focus to the issues view.
C18_ApplySearch ==
    [][ lastEvent' = "closeSearch" =>
           /\ focus = "search"
           /\ C18_IsTrimOf(searchString', searchBuf)
           /\ issues' = filterIssues(allIssues, assignedToMe, viewerID,
                                     currentView, searchString')
           /\ allIssues' = allIssues
           /\ selectedIssue' = -1
           /\ showSearch' = FALSE
           /\ focus' = "issues" ]_vars

C18_Witness ==
    /\ lastEvent = "closeSearch"
    /\ searchBuf = <<" ","l","o","g","i","n"," ">>
    /\ searchString = <<"l","o","g","i","n">>
    /\ showSearch = FALSE
    /\ focus = "issues"

\* C19: cancel-search empties the search box and searchString, whatever was
\* applied before, recomputes issues without a search text, resets the
\* selection, hides the search box and gives the focus to the issues view.
C19_CancelSearch ==
    [][ lastEvent' = "cancelSearch" =>
           /\ focus = "search"
           /\ searchBuf' = <<>>
           /\ searchString' = <<>>
           /\ issues' = filterIssues(allIssues, assignedToMe, viewerID,
                                     currentView, <<>>)
           /\ allIssues' = allIssues
           /\ selectedIssue' = -1
           /\ showSearch' = FALSE
           /\ focus' = "issues" ]_vars

C19_Witness ==
    /\ lastEvent = "cancelSearch"
    /\ searchString = <<>>
    /\ searchBuf = <<>>
    /\ searchExists
    /\ Len(issues) = 3
    /\ showSearch = FALSE
    /\ focus = "issues"

\* C20: open-search on a hidden search box shows it, and whenever the search
\* view takes the focus its text is searchString; neither step changes
\* searchString, issues or the selection.
C20_SearchSeeded ==
    [][ /\ (lastEvent' = "toggleSearch" /\ ~showSearch) => showSearch'
        /\ ((lastEvent' = "toggleSearch" /\ ~showSearch)
               \/ (focus # "search" /\ focus' = "search")) =>
              /\ searchString' = searchString
              /\ issues' = issues
              /\ selectedIssue' = selectedIssue
        /\ (focus # "search" /\ focus' = "search") => searchBuf' = searchString' ]_vars

\* the events that fetch: refresh and the two team switches
FetchEvents == {"refreshIssues"} \cup TeamEvents

\* C21 as stated: a refresh or team switch that fetches asks the service for
\* the issues, the team roster and the viewer.
C21_Original ==
    [][ (lastEvent' \in FetchEvents /\ fetch'.kind # "none") =>
           StartupCalls \subseteq fetch'.calls ]_vars

\* C21: a refresh or team switch that fetches asks the service for the issues
\* only and replaces allIssues wholesale, by a list the service answered in
\* rank order or by the one-row error placeholder; the team roster and the
\* viewer id stay those of startup.
C21_IssuesRefetched ==
    [][ (lastEvent' \in FetchEvents /\ fetch'.kind # "none") =>
           /\ fetch'.calls = {"GetIssues"}
           /\ teams' = teams
           /\ viewerID' = viewerID
           /\ fetch'.kind = "ok" =>
                 \E r \in Responses :
                    /\ Len(allIssues') = Len(r)
                    /\ \A i \in 1..Len(r) : \E k \in 1..Len(r) : allIssues'[k] = r[i]
           /\ fetch'.kind = "failed" =>
                 /\ Len(allIssues') = 1
                 /\ allIssues'[1].ID = ""
                 /\ Contains(allIssues'[1].Title, fetch'.err) ]_vars

C21_Witness ==
    /\ lastEvent = "refreshIssues"
    /\ fetch.kind = "failed"
    /\ fetch.calls = {"GetIssues"}
    /\ Len(teams) = 2
    /\ viewerID = "u1"
    /\ Len(allIssues) = 1

\* C22: a layout that follows a layout, with the state and the terminal as
\* they were, leaves the painted content, the cursor row, the scroll origin,
\* the focus and the search view as the first layout left them.
C22_LayoutIdempotent ==
    [][ (lastEvent = "layout" /\ lastEvent' = "layout") =>
           /\ Painted' = Painted
           /\ cy' = cy
           /\ oy' = oy
           /\ focus' = focus
           /\ viewH' = viewH
           /\ searchExists' = searchExists
           /\ searchBuf' = searchBuf ]_vars

\* a layout has just moved the cursor up onto the last row of a shorter list
C22_Witness ==
    /\ lastEvent = "layout"
    /\ ENABLED layout
    /\ Len(issues) = 1
    /\ Len(allIssues) = 3
    /\ cy = 0
    /\ oy = 1
    /\ focus = "issues"

\* C23: layout changes no field of the UI state and no scroll origin, and it
\* leaves the cursor where it is when the cursor row is a row of the list.
C23_LayoutFrame ==
    [][ lastEvent' = "layout" =>
           /\ UNCHANGED uiVars
           /\ oy' = oy
           /\ (cy >= 0 /\ cy < Len(issues)) => cy' = cy ]_vars

C23_Witness ==
    /\ lastEvent = "layout"
    /\ selectedIssue = 1
    /\ cy = 1
    /\ Len(issues) = 3
    /\ showHelp
    /\ showSearch
    /\ assignedToMe = FALSE
    /\ currentTeam = 1

\* at most one fetch is in flight, the results applied are those of the calls
\* in the order the calls were begun, and allIssues is the last of them
C24_State ==
    /\ inFlight \in {0, 1}
    /\ inFlight = 1 <=> loopAt = "GetIssues"
    /\ Len(applied) = started - inFlight
    /\ \A i \in 1..Len(applied) : applied[i].call = i
    /\ (applied # <<>> /\ inFlight = 0) => allIssues = applied[Len(applied)].issues

\* while a fetch is in flight no handler begins and no key leaves the queue
C24_Step ==
    inFlight > 0 =>
       /\ started' = started
       /\ showHelp' = showHelp
       /\ \/ queue' = queue
          \/ \E k \in LoopKeys : queue' = Append(queue, k)

\* C24: handlers and fetches are serialized: at most one fetch is in flight,
\* no key event is handled while one is, and the fetches of consecutive
\* refresh keys are made one after the other and applied in the order of the
\* keys, allIssues ending as the result of the last.
C24_Serialized == []C24_State /\ [][C24_Step]_vars

\* two refresh keys were handled and the two results differ
C24_Witness ==
    /\ Len(applied) = 2
    /\ applied[1].issues # applied[2].issues
    /\ allIssues = applied[2].issues
    /\ inFlight = 0
    /\ queue = <<>>

\* the events that move the list cursor or select the row under it
MoveEvents == {"cursorUp", "cursorDown", "selectIssue"}

\* while the search view is current no move or select handler can run; with
\* the help shown and the issues view current they can
C25_State ==
    /\ focus = "search" =>
          (~ENABLED cursorUp /\ ~ENABLED cursorDown /\ ~ENABLED selectIssue)
    /\ (running /\ focus = "issues" /\ showHelp) =>
          (ENABLED cursorUp /\ ENABLED selectIssue)

C25_Step ==
    /\ focus = "search" =>
          /\ lastEvent' \notin MoveEvents
          /\ oy' = oy
          /\ lastEvent' \notin {"layout", "closeSearch", "cancelSearch"} =>
                (cy' = cy /\ selectedIssue' = selectedIssue)
    /\ (showHelp /\ lastEvent' = "selectIssue" /\ cy < Len(issues)) =>
          selectedIssue' = cy
    /\ (showHelp /\ lastEvent' = "cursorDown" /\ cy < Len(issues) - 1
           /\ CursorFits(cy + 1, viewH)) =>
          cy' = cy + 1
    /\ (showHelp /\ lastEvent' = "cursorUp" /\ Len(issues) > 0 /\ cy > 0
           /\ CursorFits(cy - 1, viewH)) =>
          cy' = cy - 1

\* C25: while the search view has the focus, move-up, move-down and
\* confirm-select are not handled and the list cursor and the selection stay
\* (until apply-search or cancel-search); while the help is shown and the
\* issues view has the focus they move the cursor and set the selection.
C25_NavigationByFocus == []C25_State /\ [][C25_Step]_vars

C25_Witness ==
    /\ lastEvent = "selectIssue"
    /\ showHelp
    /\ focus = "issues"
    /\ cy = 1
    /\ selectedIssue = 1

\* the details view by priority: help, selected issue, prompt
C26_State ==
    LET pane == DetailPane(showHelp, selectedIssue, issues)
        valid == selectedIssue >= 0 /\ selectedIssue < Len(issues)
    IN /\ showHelp => pane.kind = "help"
       /\ (~showHelp /\ valid) =>
             /\ pane.kind = "issue"
             /\ pane.ID = issues[selectedIssue + 1].ID
             /\ pane.Title = issues[selectedIssue + 1].Title
             /\ pane.State = issues[selectedIssue + 1].State
             /\ pane.Assignee = issues[selectedIssue + 1].Assignee.Name
       /\ (~showHelp /\ ~valid) => pane.kind = "prompt"
       /\ Painted.details = pane

C26_Step ==
    (lastEvent' = "toggleHelp" /\ showHelp
        /\ selectedIssue >= 0 /\ selectedIssue < Len(issues)) =>
       /\ DetailPane(showHelp, selectedIssue, issues).kind = "help"
       /\ DetailPane(showHelp', selectedIssue', issues').kind = "issue"
       /\ DetailPane(showHelp', selectedIssue', issues').ID = issues[selectedIssue + 1].ID

\* C26: what the details view is painted with is the help whenever showHelp
\* is set, selection or not; otherwise the fields of issues[selectedIssue]
\* when the selection is an index of issues; otherwise the prompt; and
\* toggling the help off with a selection made shows that issue again.
C26_DetailPriority == []C26_State /\ [][C26_Step]_vars

\* the help was toggled off with the second row selected
C26_Witness ==
    /\ lastEvent = "toggleHelp"
    /\ ~showHelp
    /\ selectedIssue = 1
    /\ Len(issues) = 3
    /\ DetailPane(showHelp, selectedIssue, issues).kind = "issue"

\* C27: the initials of a name are two characters: the first characters of
\* its first two tokens when it has two or more, the first two characters of
\* the token when it has one, and "--" when there is no name.
C27_TwoInitials ==
    lastEvent = "initials" =>
       LET tokens == Fields(Chars(assigneeName))
       IN /\ Len(initials) = 2
          /\ assigneeName = <<>> => initials = <<"-", "-">>
          /\ Len(tokens) >= 2 => initials = <<tokens[1][1], tokens[2][1]>>
          /\ Len(tokens) = 1 => initials = SubSeq(tokens[1], 1, 2)

\* the events that can change the list displayed
ListChangeEvents ==
    {"toggleAssigned", "prevView", "nextView", "closeSearch", "cancelSearch",
     "refreshIssues", "prevTeam", "nextTeam"}

\* C28: after a layout that follows a change of the list displayed, when
\* issues is not empty the highlighted row, scroll origin plus cursor row,
\* is an index of issues.
C28_HighlightInList ==
    [][ (lastEvent \in ListChangeEvents /\ lastEvent' = "layout" /\ Len(issues') > 0) =>
           (Highlighted' >= 0 /\ Highlighted' < Len(issues')) ]_vars

\* C29: refresh, prev-team and next-team leave currentView, assignedToMe,
\* searchString, showHelp and showSearch as they were, whether the fetch
\* succeeds or fails, and issues is the refetched list under those filters.
C29_FiltersKept ==
    [][ lastEvent' \in FetchEvents =>
           /\ currentView' = currentView
           /\ assignedToMe' = assignedToMe
           /\ searchString' = searchString
           /\ showHelp' = showHelp
           /\ showSearch' = showSearch
           /\ issues' = filterIssues(allIssues', assignedToMe, viewerID,
                                     currentView, searchString) ]_vars

\* a team switch whose fetch succeeded, shown through the three filters
C29_Witness ==
    /\ lastEvent = "nextTeam"
    /\ fetch.kind = "ok"
    /\ currentView = 3
    /\ assignedToMe
    /\ searchString = <<"l","o","g","i","n">>
    /\ Len(allIssues) = 3
    /\ Len(issues) = 0

\* the events that change filters, modes, cursor or selection
LocalEvents ==
    {"toggleAssigned", "prevView", "nextView", "toggleSearch", "closeSearch",
     "cancelSearch", "toggleHelp", "cursorUp", "cursorDown", "selectIssue"}

\* C30: toggle-assigned, prev-view, next-view, open-search, apply-search,
\* cancel-search, toggle-help, move-up, move-down and confirm-select fetch
\* nothing and leave allIssues, teams and currentTeam as they were; allIssues
\* changes only on refresh and on a team switch.
C30_LocalEventsFrame ==
    [][ /\ lastEvent' \in LocalEvents =>
              /\ fetch'.kind = "none"
              /\ fetch'.calls = {}
              /\ allIssues' = allIssues
              /\ teams' = teams
              /\ currentTeam' = currentTeam
        /\ allIssues' # allIssues => lastEvent' \in FetchEvents ]_vars

C30_Witness ==
    /\ lastEvent = "nextView"
    /\ fetch.kind = "none"
    /\ currentView = 4
    /\ Len(allIssues) = 3
    /\ Len(issues) = 1
    /\ currentTeam = 1

\* the events that give the focus back to the issues view
LeaveSearchEvents == {"closeSearch", "cancelSearch"}

\* after layout the search view has the focus when showSearch is set and the
\* issues view when it is not; with the search view current the search box
\* is shown, the open-search key is not handled, and apply, cancel and quit are
C31_State ==
    /\ lastEvent = "layout" =>
          /\ focus = "search" <=> showSearch
          /\ ~showSearch => focus = "issues"
    /\ focus = "search" =>
          /\ showSearch
          /\ ~ENABLED toggleSearch
    /\ (running /\ focus = "search") =>
          (ENABLED closeSearch /\ ENABLED cancelSearch /\ ENABLED quit)

\* with the search view current, only apply-search and cancel-search hide
\* the box or move the focus, and only quit ends the loop
C31_Step ==
    focus = "search" =>
       /\ (focus' # "search" \/ ~showSearch') => lastEvent' \in LeaveSearchEvents
       /\ lastEvent' \in LeaveSearchEvents => (focus' = "issues" /\ ~showSearch')
       /\ running' # running => lastEvent' = "quit"

\* C31: after every event followed by layout the focus is on the search view
\* if and only if showSearch is set, and on the issues view otherwise; once
\* the search view has the focus only apply-search, cancel-search and quit
\* leave it, and the open-search key does not close the box.
C31_FocusFollowsSearch == []C31_State /\ [][C31_Step]_vars

\* the search box was opened, typed into, applied and opened again
C31_Witness ==
    /\ lastEvent = "layout"
    /\ showSearch
    /\ focus = "search"
    /\ searchString = <<"l","o","g","i","n">>
    /\ searchBuf = <<"l","o","g","i","n">>
    /\ showHelp

====
